---- MODULE Spec2Model ----
(***************************************************************************)
(* Model of the multiplayer soccer game controllers:                       *)
(*   controllers/server_controller.py   the relay server                   *)
(*   controllers/robot_controller/robot_controller.py   the robot agent    *)
(*                                                                         *)
(* Spec       the relay server with its accept thread and one handler      *)
(*            thread per connection                                        *)
(* LinkSpec   the accept thread and the receive threads of the robots      *)
(* AgentSpec  one robot whose socket is fed arbitrary lines and pieces     *)
(* WorldSpec  one robot whose socket is fed whole well-formed lines        *)
(* TickSpec   one robot's main loop next to its connect and receive        *)
(*            threads                                                      *)
(* AngleSpec  send_player_state over a grid of headings                    *)
(*                                                                         *)
(* Threads of the server interleave between the steps modelled here: a     *)
(* socket call releases the interpreter lock, and so may the jump back to  *)
(* the head of a for loop.                                                 *)
(***************************************************************************)
EXTENDS Integers, Sequences, FiniteSets, TLC

VARIABLES clients, team1, team2, acceptor, handler, peerOpen, srvOpen, outbox,
          posFrom, robots

vars == <<clients, team1, team2, acceptor, handler, peerOpen, srvOpen, outbox,
          posFrom, robots>>

serverVars == <<clients, team1, team2, acceptor, handler, posFrom>>

\* Bounds
MaxAgents == 3
MaxLines == 3

Conns == 1..MaxAgents

\* uuid.uuid4() of the n-th accepted connection: pairwise distinct strings
UuidNames == <<"p1", "p2", "p3", "p4", "p5", "p6", "p7", "p8">>

Uuid(c) == UuidNames[c]

TeamNames == <<"1", "2">>

\* self.player_id = 0 / self.team_number = 0: the integer zero, falsy
Unset == "int:0"

\* self.state = None, self.role = None, and None inside a peer record
None == "None"

NoFrame == <<>>

\* The decimal strings of the model and the value float() gives them.
\* Lengths (metres) and times (seconds) are rationals, held as a whole number
\* of twentieths: 20 stands for 1.0, 5 for 0.25
Numerals == {"0", "0.05", "0.1", "0.4", "0.6", "1", "2"}

Float(s) ==
  CASE s = "0" -> 0 [] s = "0.05" -> 1 [] s = "0.1" -> 2 [] s = "0.4" -> 8
    [] s = "0.6" -> 12 [] s = "1" -> 20 [] s = "2" -> 40

IsFloat(s) == s \in Numerals

Min(S) == CHOOSE m \in S : \A k \in S : m <= k

\* A chunk of bytes written to a socket: the text of a frame, split at "|",
\* and whether a newline ends it
Chunk(frame, nl) == [frame |-> frame, nl |-> nl]

\* Text concatenation of two pieces of a line, as fields
Glue(f, g) ==
  IF f = <<>> THEN g
  ELSE IF g = <<>> THEN f
  ELSE SubSeq(f, 1, Len(f) - 1) \o <<f[Len(f)] \o g[1]>> \o Tail(g)

RECURSIVE GlueAll(_)
GlueAll(pieces) ==
  IF pieces = <<>> THEN <<>>
  ELSE Glue(pieces[1], GlueAll(Tail(pieces)))

(***************************************************************************)
(* Relay server                                                            *)
(***************************************************************************)

\* A dict iterator: the dict size when it was made and the last key it gave
NoIter == [size |-> -1, pos |-> 0]

NewIter == [size |-> Cardinality(clients), pos |-> 0]

\* next() of the iterator: "error" for RuntimeError (dictionary changed size
\* during iteration), "stop" at the end, else the next key in insertion order
IterNext(it) ==
  IF Cardinality(clients) # it.size THEN [kind |-> "error", key |-> 0]
  ELSE IF \E k \in clients : k > it.pos
       THEN [kind |-> "item", key |-> Min({k \in clients : k > it.pos})]
       ELSE [kind |-> "stop", key |-> 0]

TeamNumberTieOne(n1, n2) == IF n1 <= n2 THEN 1 ELSE 2

TeamNumberReversed(n1, n2) == IF n1 > n2 THEN 1 ELSE 2

\* if len(team1) < len(team2): team_number = 1 else: team_number = 2
TeamNumber(n1, n2) == IF n1 < n2 THEN 1 ELSE 2

SetupFrame(team_number, c) == <<"SETUP", TeamNames[team_number], Uuid(c)>>

AddFrame(team_number, c) == <<"ADD", TeamNames[team_number], Uuid(c)>>

\* What a client may write to its socket: the robot's POS report, frames of
\* the server's own tags, an unknown tag, and data with no "|" in it
PosFrame == <<"POS", "p1", "1", "2", "0\n">>

ClientFrames ==
  { PosFrame, <<"ACK", "p1">>, <<"GET", "p1", "x">>, <<"HELLO", "p1">>, <<"ACK">> }

\* sender_id = message_parts[1] raises IndexError on data without "|"
ServerHandleRaises(frame) == Len(frame) < 2

HandlerInit == [pc |-> "none", it |-> NoIter]

AcceptorInit ==
  [pc |-> "listen", conn |-> 0, team_number |-> 0, it |-> NoIter, bcast |-> "none"]

\* An exception leaves handle_client_connection and the loop of start_server:
\* the server thread ends
AcceptorDead ==
  [acceptor EXCEPT !.pc = "dead", !.it = NoIter,
                   !.bcast = IF acceptor.pc = "bcast" THEN "raised" ELSE @]

\* server.accept() returns the next connection; handle_client_connection
\* starts: clients[player_id] = connection
Accept ==
  /\ acceptor.pc = "listen"
  /\ \E c \in Conns :
       /\ c = Cardinality({k \in Conns : peerOpen[k] # "unborn"}) + 1
       /\ peerOpen' = [peerOpen EXCEPT ![c] = "open"]
       /\ srvOpen' = [srvOpen EXCEPT ![c] = TRUE]
       /\ robots' = [robots EXCEPT ![c].listening = TRUE]
       /\ clients' = clients \cup {c}
       /\ acceptor' = [acceptor EXCEPT !.pc = "team", !.conn = c, !.bcast = "none"]
  /\ UNCHANGED <<team1, team2, handler, outbox, posFrom>>

\* Add player to a team
AssignTeam ==
  /\ acceptor.pc = "team"
  /\ LET t == TeamNumber(Cardinality(team1), Cardinality(team2)) IN
       /\ team1' = IF t = 1 THEN team1 \cup {acceptor.conn} ELSE team1
       /\ team2' = IF t = 2 THEN team2 \cup {acceptor.conn} ELSE team2
       /\ acceptor' = [acceptor EXCEPT !.pc = "setup", !.team_number = t]
  /\ UNCHANGED <<clients, handler, peerOpen, srvOpen, outbox, posFrom, robots>>

\* conn.sendall(data): the bytes are written, or, when the peer has closed,
\* the call may raise
SendOk(c, frame) == outbox' = [outbox EXCEPT ![c] = Append(@, Chunk(frame, FALSE))]

SendMayFail(c) == peerOpen[c] = "closed"

\* connection.sendall(f"SETUP|{team_number}|{player_id}")
SendSetup ==
  /\ acceptor.pc = "setup"
  /\ \/ /\ SendOk(acceptor.conn, SetupFrame(acceptor.team_number, acceptor.conn))
        /\ acceptor' = [acceptor EXCEPT !.pc = "bcast", !.it = NoIter, !.bcast = "running"]
     \/ /\ SendMayFail(acceptor.conn)
        /\ acceptor' = AcceptorDead
        /\ UNCHANGED outbox
  /\ UNCHANGED <<clients, team1, team2, handler, peerOpen, srvOpen, posFrom, robots>>

\* One round of the loop of broadcast(f"ADD|...", player_id), run by the
\* accept thread; the first round also makes the iterator
BroadcastStep ==
  /\ acceptor.pc = "bcast"
  /\ LET it == IF acceptor.it = NoIter THEN NewIter ELSE acceptor.it
         nx == IterNext(it)
     IN CASE nx.kind = "error" ->
               /\ acceptor' = AcceptorDead
               /\ UNCHANGED outbox
          [] nx.kind = "stop" ->
               /\ acceptor' = [acceptor EXCEPT !.pc = "start", !.it = NoIter,
                                                !.bcast = "returned"]
               /\ UNCHANGED outbox
          [] nx.kind = "item" ->
               IF nx.key = acceptor.conn
               THEN /\ acceptor' = [acceptor EXCEPT !.it = [it EXCEPT !.pos = nx.key]]
                    /\ UNCHANGED outbox
               ELSE \/ /\ SendOk(nx.key, AddFrame(acceptor.team_number, acceptor.conn))
                       /\ acceptor' = [acceptor EXCEPT !.it = [it EXCEPT !.pos = nx.key]]
                    \/ /\ SendMayFail(nx.key)
                       /\ acceptor' = AcceptorDead
                       /\ UNCHANGED outbox
  /\ UNCHANGED <<clients, team1, team2, handler, peerOpen, srvOpen, posFrom, robots>>

\* thread = threading.Thread(target=handle_client_communication, ...); thread.start()
StartHandler ==
  /\ acceptor.pc = "start"
  /\ handler' = [handler EXCEPT ![acceptor.conn].pc = "recv"]
  /\ acceptor' = [acceptor EXCEPT !.pc = "listen"]
  /\ UNCHANGED <<clients, team1, team2, peerOpen, srvOpen, outbox, posFrom, robots>>

\* data = connection.recv(1024) returns a frame; handle_message(message, connection)
HandlerRecvFrame(c) ==
  /\ handler[c].pc = "recv"
  /\ peerOpen[c] = "open"
  /\ \E frame \in ClientFrames :
       IF ServerHandleRaises(frame)
       THEN /\ handler' = [handler EXCEPT ![c].pc = "finally"]
            /\ UNCHANGED posFrom
       ELSE /\ posFrom' = IF frame[1] = "POS" THEN c ELSE posFrom
            /\ UNCHANGED handler
  /\ UNCHANGED <<clients, team1, team2, acceptor, peerOpen, srvOpen, outbox, robots>>

\* recv returns b"" (break) or raises ConnectionResetError once the peer closed
HandlerRecvClosed(c) ==
  /\ handler[c].pc = "recv"
  /\ peerOpen[c] = "closed"
  /\ handler' = [handler EXCEPT ![c].pc = "finally"]
  /\ UNCHANGED <<clients, team1, team2, acceptor, peerOpen, srvOpen, outbox, posFrom, robots>>

\* finally: one round of "for id, conn in clients.items(): if conn == connection";
\* the first round also makes the iterator. A RuntimeError ends the thread
\* inside the finally block; a lookup that finds nothing leaves only
\* connection.close() to do
HandlerLookup(c) ==
  /\ handler[c].pc = "finally"
  /\ LET it == IF handler[c].it = NoIter THEN NewIter ELSE handler[c].it
         nx == IterNext(it)
     IN /\ handler' =
             CASE nx.kind = "error" -> [handler EXCEPT ![c].pc = "crashed", ![c].it = NoIter]
               [] nx.kind = "stop" -> [handler EXCEPT ![c].pc = "done", ![c].it = NoIter]
               [] nx.kind = "item" ->
                    IF nx.key = c
                    THEN [handler EXCEPT ![c].pc = "del", ![c].it = NoIter]
                    ELSE [handler EXCEPT ![c].it = [it EXCEPT !.pos = nx.key]]
        /\ srvOpen' = IF nx.kind = "stop" THEN [srvOpen EXCEPT ![c] = FALSE] ELSE srvOpen
  /\ UNCHANGED <<clients, team1, team2, acceptor, peerOpen, outbox, posFrom, robots>>

\* del clients[player_id]
HandlerDel(c) ==
  /\ handler[c].pc = "del"
  /\ clients' = clients \ {c}
  /\ handler' = [handler EXCEPT ![c].pc = "discard"]
  /\ UNCHANGED <<team1, team2, acceptor, peerOpen, srvOpen, outbox, posFrom, robots>>

\* team1.discard(player_id); team2.discard(player_id); connection.close()
HandlerDiscard(c) ==
  /\ handler[c].pc = "discard"
  /\ team1' = team1 \ {c}
  /\ team2' = team2 \ {c}
  /\ handler' = [handler EXCEPT ![c].pc = "done"]
  /\ srvOpen' = [srvOpen EXCEPT ![c] = FALSE]
  /\ UNCHANGED <<clients, acceptor, peerOpen, outbox, posFrom, robots>>

\* The client's end of the connection goes away
ClientCloses(c) ==
  /\ peerOpen[c] = "open"
  /\ peerOpen' = [peerOpen EXCEPT ![c] = "closed"]
  /\ UNCHANGED <<serverVars, srvOpen, outbox, robots>>

(***************************************************************************)
(* Robot agent: the receive thread                                         *)
(***************************************************************************)

\* [None, [0, 0], [0, 0, 0, 0]]
PeerDefault == [info |-> None, position |-> <<0, 0>>, rotation |-> <<0, 0, 0, 0>>]

\* self.currentlyPlaying = False
NotPlaying == "False"

\* The sensor values of one simulation step: gps.getValues() as <<x, y>>,
\* getRollPitchYaw()[2] in degrees, fsr[i].getValues() of the left and the
\* right foot as <<fx, fy, fz>> in quarters of a newton. They hold from the
\* return of step() to the last statement of the loop body that reads them
NoSense == [gps |-> <<0, 0>>, yaw |-> 0, fsr |-> <<<<0, 0, 0>>, <<0, 0, 0>>>>]

\* Nao.__init__ and SoccerRobot.__init__, with the state of the receive
\* thread (listening, buffer, nread, exitOn), the position of the main loop
\* (pc), the simulation time and sensor values of the current step, and what
\* the current step issued: calls of Motion.play/stop (cmds), frames given
\* to sock.sendall (tx) and the result of has_fallen (fell). sent_state is
\* self.state as it was when sendall last succeeded; the code keeps no such
\* field, it is kept here for the sake of stating properties
RobotInit ==
  [ player_id |-> Unset, team_number |-> Unset,
    player_states |-> <<>>, player_team |-> <<>>,
    ball_position |-> <<0, 0, 0>>,
    state |-> None, role |-> None,
    setup_time |-> 0, paused |-> TRUE,
    listening |-> FALSE, buffer |-> <<>>, nread |-> 0, exitOn |-> NoFrame,
    currentlyPlaying |-> NotPlaying, over |-> FALSE,
    target_position |-> <<0, 0>>, target_rotation |-> <<0, 0>>,
    start_time |-> 0, last_position |-> <<0, 0>>, last_rotation |-> 0,
    pc |-> "step", time |-> 1, sense |-> NoSense,
    cmds |-> <<>>, tx |-> <<>>, fell |-> FALSE, sent_state |-> None ]

\* "not self.player_id"
Falsy(v) == v \in {Unset, ""}

Put(f, k, v) == [x \in DOMAIN f \cup {k} |-> IF x = k THEN v ELSE f[x]]

Ok(r) == [robot |-> r, raised |-> FALSE]

Raise(r) == [robot |-> r, raised |-> TRUE]

HandlePosNoRotation(r, parts) ==
  IF Len(parts) < 5 THEN Raise(r)
  ELSE IF ~(IsFloat(parts[3]) /\ IsFloat(parts[4]) /\ IsFloat(parts[5])) THEN Raise(r)
  ELSE IF parts[2] = r.player_id THEN Ok(r)
  ELSE IF parts[2] \notin DOMAIN r.player_states THEN Raise(r)
  ELSE Ok([r EXCEPT !.player_states[parts[2]].position = <<Float(parts[3]), Float(parts[4])>>])

HandlePos(r, parts) ==
  IF Len(parts) < 5 THEN Raise(r)
  ELSE IF ~(IsFloat(parts[3]) /\ IsFloat(parts[4]) /\ IsFloat(parts[5])) THEN Raise(r)
  ELSE IF parts[2] = r.player_id THEN Ok(r)
  ELSE IF parts[2] \notin DOMAIN r.player_states THEN Raise(r)
  ELSE Ok([r EXCEPT !.player_states[parts[2]].position = <<Float(parts[3]), Float(parts[4])>>,
                    !.player_states[parts[2]].rotation = <<Float(parts[5])>>])

HandleBall(r, parts) ==
  IF Len(parts) < 4 THEN Raise(r)
  ELSE IF ~(IsFloat(parts[2]) /\ IsFloat(parts[3]) /\ IsFloat(parts[4])) THEN Raise(r)
  ELSE Ok([r EXCEPT !.ball_position = <<Float(parts[2]), Float(parts[3]), Float(parts[4])>>])

HandleRole(r, parts) ==
  IF Len(parts) < 2 THEN Raise(r)
  ELSE Ok([r EXCEPT !.role = parts[2]])

HandleStart(r, parts) ==
  IF Len(parts) < 2 \/ ~IsFloat(parts[2]) THEN Raise([r EXCEPT !.paused = FALSE])
  ELSE Ok([r EXCEPT !.paused = FALSE, !.setup_time = Float(parts[2])])

HandleInfo(r, parts) ==
  IF Len(parts) < 3 THEN Raise(r)
  ELSE IF Falsy(r.player_id)
       THEN Ok([r EXCEPT !.team_number = parts[2], !.player_id = parts[3]])
       ELSE Ok([r EXCEPT !.player_states = Put(@, parts[3], PeerDefault),
                         !.player_team = Put(@, parts[3], parts[2])])

\* SoccerRobot.handle_message: the robot after the message, and whether
\* the call raised
HandleMessage(r, parts) ==
  CASE parts[1] = "POS" -> HandlePos(r, parts)
    [] parts[1] = "BALL" -> HandleBall(r, parts)
    [] parts[1] = "ROLE" -> HandleRole(r, parts)
    [] parts[1] = "START" -> HandleStart(r, parts)
    [] parts[1] = "INFO" -> HandleInfo(r, parts)
    [] OTHER -> Ok(r)

\* The chunk the next recv of robot c returns
NextChunk(c) == outbox[c][robots[c].nread + 1]

\* The line that chunk completes, NoFrame when it brings no newline
NextLine(c) ==
  IF NextChunk(c).nl THEN GlueAll(Append(robots[c].buffer, NextChunk(c).frame))
  ELSE NoFrame

\* One round of the loop of listen_for_server with data: buffer += data,
\* then every complete line goes to handle_message; an exception ends the
\* loop and closes the socket
RobotRecv(c) ==
  /\ robots[c].listening
  /\ peerOpen[c] = "open"
  /\ robots[c].nread < Len(outbox[c])
  /\ LET r == [robots[c] EXCEPT !.nread = @ + 1]
         line == NextLine(c)
         res == HandleMessage([r EXCEPT !.buffer = <<>>], line)
     IN IF line = NoFrame
        THEN /\ robots' = [robots EXCEPT ![c] = [r EXCEPT !.buffer = Append(@, NextChunk(c).frame)]]
             /\ UNCHANGED peerOpen
        ELSE IF res.raised
        THEN /\ robots' = [robots EXCEPT ![c] = [res.robot EXCEPT !.listening = FALSE,
                                                                  !.exitOn = line]]
             /\ peerOpen' = [peerOpen EXCEPT ![c] = "closed"]
        ELSE /\ robots' = [robots EXCEPT ![c] = res.robot]
             /\ UNCHANGED peerOpen
  /\ UNCHANGED <<serverVars, srvOpen, outbox>>

\* recv returns b"" after the server closed its end: break, sock.close()
RobotRecvEof(c) ==
  /\ robots[c].listening
  /\ peerOpen[c] = "open"
  /\ ~srvOpen[c]
  /\ robots[c].nread = Len(outbox[c])
  /\ robots' = [robots EXCEPT ![c].listening = FALSE]
  /\ peerOpen' = [peerOpen EXCEPT ![c] = "closed"]
  /\ UNCHANGED <<serverVars, srvOpen, outbox>>

(***************************************************************************)
(* Robot agent: motions, fall detection and navigation                     *)
(*                                                                         *)
(* Positions are <<x, y>> in twentieths of a metre, angles whole degrees,  *)
(* foot forces quarters of a newton. A distance is compared through its    *)
(* square, a force through its multiple by 1360 (= 3.4 * 400), so that     *)
(* every comparison of the code is exact.                                  *)
(***************************************************************************)

Abs(x) == IF x < 0 THEN -x ELSE x

Sgn(x) == IF x > 0 THEN 1 ELSE IF x < 0 THEN -1 ELSE 0

\* get_distance(point_one, point_two) ** 2
DistSq(p, q) == (q[1] - p[1]) * (q[1] - p[1]) + (q[2] - p[2]) * (q[2] - p[2])

CalculateAngleDifferenceUpper(angle1, angle2) == 180 - ((angle1 - angle2 + 180) % 360)

\* calculate_angle_difference(angle1, angle2), in degrees
CalculateAngleDifference(angle1, angle2) == ((angle2 - angle1 + 180) % 360) - 180

\* normalize_vector, for the vectors along an axis the model draws
NormalizeVector(vector) == <<Sgn(vector[1]), Sgn(vector[2])>>

\* math.atan2(y, x) in degrees, for vectors along an axis or a diagonal
Atan2(y, x) ==
  CASE y = 0 /\ x >= 0 -> 0
    [] y = 0 /\ x < 0 -> 180
    [] x = 0 /\ y > 0 -> 90
    [] x = 0 /\ y < 0 -> -90
    [] x > 0 /\ y = x -> 45
    [] x < 0 /\ y = -x -> 135
    [] x > 0 /\ y = -x -> -45
    [] x < 0 /\ y = x -> -135

\* Thresholds of the code: 0.25 m and 5 degrees (send_player_state), 0.2 m
\* (go_to, move_to_position, kick range), 0.5 m (ball moved), 5 and 2
\* degrees (turn_to_direction), 5 N (has_fallen), 25 N (print_foot_sensors)
SendDistance == 5
SendAngle == 5
Threshold == 4
BallMoved == 10
KickRange == 4
TurnThreshold == 5
GoToTurnThreshold == 2
ForceThreshold == 6800
SetupMultiplier == 2

\* is_motion_over
IsMotionOver(r) == r.currentlyPlaying = NotPlaying \/ r.over

\* is_setup_time_over(multiplier)
IsSetupTimeOver(r, multiplier) == r.time >= r.start_time + r.setup_time * multiplier

\* start_motion(motion)
StartMotion(r, motion) ==
  [r EXCEPT !.cmds = (IF r.currentlyPlaying # NotPlaying /\ r.currentlyPlaying # motion
                      THEN Append(@, <<"stop", r.currentlyPlaying>>) ELSE @)
                     \o << <<"play", motion>> >>,
            !.currentlyPlaying = motion,
            !.over = FALSE]

\* stop_motion
StopMotion(r) ==
  [r EXCEPT !.cmds = IF r.currentlyPlaying # NotPlaying
                     THEN Append(@, <<"stop", r.currentlyPlaying>>) ELSE @,
            !.currentlyPlaying = NotPlaying,
            !.over = FALSE]

\* One term of the sums of has_fallen, times 1360:
\* fz / 3.4 + sx * 1.5 * fx + sy * 1.15 * fy
Corner(f, sx, sy) == 100 * f[3] + sx * 510 * f[1] + sy * 391 * f[2]

\* newtonsLeft / newtonsRight: the four terms, summed as they are
FootSum(f) == Corner(f, 1, 1) + Corner(f, 1, -1) + Corner(f, -1, -1) + Corner(f, -1, 1)

HasFallenGateBoth(r, fsv) ==
  IF ~IsMotionOver(r) /\ ~IsSetupTimeOver(r, SetupMultiplier) THEN FALSE
  ELSE FootSum(fsv[1]) + FootSum(fsv[2]) < ForceThreshold

\* has_fallen(force_threshold = 5) with the foot sensor values fsv
HasFallen(r, fsv) ==
  IF ~IsMotionOver(r) \/ ~IsSetupTimeOver(r, SetupMultiplier) THEN FALSE
  ELSE FootSum(fsv[1]) + FootSum(fsv[2]) < ForceThreshold

\* start_turn(direction)
StartTurn(r, direction) == [r EXCEPT !.target_rotation = direction, !.state = "Turning"]

TurnToDirectionInclusive(r, direction, threshold) ==
  LET angle_difference ==
        CalculateAngleDifference(r.sense.yaw, Atan2(direction[2], direction[1]))
  IN IF Abs(angle_difference) <= threshold
     THEN [robot |-> IF r.state = "Turning"
                     THEN [StopMotion(r) EXCEPT !.state = "Moving"]
                     ELSE r,
           turning |-> FALSE]
     ELSE [robot |-> IF IsMotionOver(r)
                     THEN StartMotion(r, IF angle_difference > 0 THEN "turnLeft40"
                                                                 ELSE "turnRight40")
                     ELSE r,
           turning |-> TRUE]

\* turn_to_direction(direction, threshold): the robot afterwards and the
\* value returned
TurnToDirection(r, direction, threshold) ==
  LET angle_difference ==
        CalculateAngleDifference(r.sense.yaw, Atan2(direction[2], direction[1]))
  IN IF Abs(angle_difference) < threshold
     THEN [robot |-> IF r.state = "Turning"
                     THEN [StopMotion(r) EXCEPT !.state = "Moving"]
                     ELSE r,
           turning |-> FALSE]
     ELSE [robot |-> IF IsMotionOver(r)
                     THEN StartMotion(r, IF angle_difference > 0 THEN "turnLeft40"
                                                                 ELSE "turnRight40")
                     ELSE r,
           turning |-> TRUE]

GoToStopsMotion(r, x_position, y_position) ==
  LET r1 == [r EXCEPT !.target_position = <<x_position, y_position>>]
      position == r1.sense.gps
      direction == NormalizeVector(<<x_position - position[1], y_position - position[2]>>)
      t == TurnToDirection(r1, direction, GoToTurnThreshold)
  IN IF DistSq(position, r1.target_position) < Threshold * Threshold
     THEN [StopMotion(r1) EXCEPT !.state = None]
     ELSE IF t.turning THEN StartTurn(t.robot, direction)
     ELSE StartMotion([t.robot EXCEPT !.state = "Moving"], "smallForwards")

\* go_to(x_position, y_position, threshold = 0.2)
GoTo(r, x_position, y_position) ==
  LET r1 == [r EXCEPT !.target_position = <<x_position, y_position>>]
      position == r1.sense.gps
      direction == NormalizeVector(<<x_position - position[1], y_position - position[2]>>)
      t == TurnToDirection(r1, direction, GoToTurnThreshold)
  IN IF DistSq(position, r1.target_position) < Threshold * Threshold
     THEN [r1 EXCEPT !.state = None]
     ELSE IF t.turning THEN StartTurn(t.robot, direction)
     ELSE StartMotion([t.robot EXCEPT !.state = "Moving"], "smallForwards")

\* move_to_position(position, threshold = 0.2)
MoveToPosition(r, position) ==
  LET curr_position == r.sense.gps
      direction == NormalizeVector(<<position[1] - curr_position[1],
                                     position[2] - curr_position[2]>>)
      t == TurnToDirection(r, direction, TurnThreshold)
  IN IF DistSq(curr_position, position) < Threshold * Threshold
     THEN [StopMotion(r) EXCEPT !.state = None]
     ELSE IF ~IsMotionOver(r) THEN r
     ELSE IF t.turning THEN StartTurn(t.robot, direction)
     ELSE StartMotion(t.robot,
                      IF DistSq(curr_position, position) < (Threshold * 2) * (Threshold * 2)
                      THEN "smallForwards" ELSE "largeForwards")

\* The named roles of "match self.role", whose cases are all "pass"
NamedRoles == {"Goalie", "Striker", "Midfielder", "Defender"}

\* The three decimals of a ".3f" format
Pad3(n) ==
  IF n < 10 THEN "00" \o ToString(n)
  ELSE IF n < 100 THEN "0" \o ToString(n)
  ELSE ToString(n)

\* f"{x:.3f}" of the number x = m / 1000
FormatMilli(m) ==
  (IF m < 0 THEN "-" ELSE "") \o ToString(Abs(m) \div 1000) \o "." \o Pad3(Abs(m) % 1000)

\* f"{v:.3f}" of a coordinate, held in twentieths
Format3f(v) == FormatMilli(v * 50)

\* f"{angle:.3f}" of a yaw, which the code holds in radians: the degrees
\* times pi / 180, rounded to the third decimal
FormatAngle(deg) == FormatMilli(Sgn(deg) * ((Abs(deg) * 174533 + 5000) \div 10000))

\* f"{self.player_id}"
FormatId(player_id) == IF player_id = Unset THEN "0" ELSE player_id

\* f'POS|{self.player_id}|{position[0]:.3f}|{position[1]:.3f}|{angle:.3f}\n'
PosReport(r) ==
  <<"POS", FormatId(r.player_id), Format3f(r.sense.gps[1]), Format3f(r.sense.gps[2]),
    FormatAngle(r.sense.yaw) \o "\n">>

SendDueAtThreshold(r, force) ==
  \/ force
  \/ DistSq(r.sense.gps, r.last_position) >= SendDistance * SendDistance
  \/ Abs(CalculateAngleDifference(r.sense.yaw, r.last_rotation)) > SendAngle

\* The condition of send_player_state(force)
SendDue(r, force) ==
  \/ force
  \/ DistSq(r.sense.gps, r.last_position) > SendDistance * SendDistance
  \/ Abs(CalculateAngleDifference(r.sense.yaw, r.last_rotation)) > SendAngle

(***************************************************************************)
(* Specifications                                                          *)
(***************************************************************************)

Init ==
  /\ clients = {}
  /\ team1 = {}
  /\ team2 = {}
  /\ acceptor = AcceptorInit
  /\ handler = [c \in Conns |-> HandlerInit]
  /\ peerOpen = [c \in Conns |-> "unborn"]
  /\ srvOpen = [c \in Conns |-> FALSE]
  /\ outbox = [c \in Conns |-> <<>>]
  /\ posFrom = 0
  /\ robots = [c \in Conns |-> RobotInit]

Next ==
  \/ Accept
  \/ AssignTeam
  \/ SendSetup
  \/ BroadcastStep
  \/ StartHandler
  \/ \E c \in Conns : HandlerRecvFrame(c)
  \/ \E c \in Conns : HandlerRecvClosed(c)
  \/ \E c \in Conns : HandlerLookup(c)
  \/ \E c \in Conns : HandlerDel(c)
  \/ \E c \in Conns : HandlerDiscard(c)
  \/ \E c \in Conns : ClientCloses(c)

Spec == Init /\ [][Next]_vars

\* The accept thread and the receive threads of the robots it serves, while
\* the handler threads of the server wait in recv
LinkNext ==
  \/ Accept
  \/ AssignTeam
  \/ SendSetup
  \/ BroadcastStep
  \/ StartHandler
  \/ \E c \in Conns : ClientCloses(c)
  \/ \E c \in Conns : RobotRecv(c)

LinkSpec == Init /\ [][LinkNext]_vars

\* Lines a server may write to the robot's socket: every tag the robot
\* dispatches on, the server's own SETUP, and lines with fields missing or
\* not numeric
AgentLines ==
  { <<"INFO", "1", "p1">>, <<"INFO", "2", "p2">>,
    <<"POS", "p2", "1", "2", "1">>, <<"POS", "p3", "1", "2", "0">>,
    <<"POS", "p2", "x", "2", "0">>, <<"POS", "p2", "1">>,
    <<"BALL", "1", "2", "0">>, <<"ROLE", "Striker">>, <<"START", "2">>,
    <<"SETUP", "2", "p1">> }

\* The robot whose receive thread AgentSpec follows
Self == 1

\* The server writes bytes to the robot's socket: a line, or a piece of a
\* line whose newline has not been written yet
ServerSends ==
  /\ srvOpen[Self]
  /\ Len(outbox[Self]) < MaxLines
  /\ \E frame \in AgentLines, nl \in BOOLEAN :
       outbox' = [outbox EXCEPT ![Self] = Append(@, Chunk(frame, nl))]
  /\ UNCHANGED <<serverVars, peerOpen, srvOpen, robots>>

\* The server closes its end of the robot's connection
ServerHangsUp ==
  /\ srvOpen[Self]
  /\ srvOpen' = [srvOpen EXCEPT ![Self] = FALSE]
  /\ UNCHANGED <<serverVars, peerOpen, outbox, robots>>

\* The robot after connect_to_server succeeded and started listen_for_server
AgentInit ==
  /\ clients = {}
  /\ team1 = {}
  /\ team2 = {}
  /\ acceptor = AcceptorInit
  /\ handler = [c \in Conns |-> HandlerInit]
  /\ peerOpen = [c \in Conns |-> IF c = Self THEN "open" ELSE "unborn"]
  /\ srvOpen = [c \in Conns |-> c = Self]
  /\ outbox = [c \in Conns |-> <<>>]
  /\ posFrom = 0
  /\ robots = [c \in Conns |-> IF c = Self THEN [RobotInit EXCEPT !.listening = TRUE]
                                           ELSE RobotInit]

AgentNext ==
  \/ ServerSends
  \/ ServerHangsUp
  \/ RobotRecv(Self)
  \/ RobotRecvEof(Self)

AgentSpec == AgentInit /\ [][AgentNext]_vars

\* Whole lines a server may write once the robot is connected: the robot's
\* own identity, a peer, the ball, pose reports of the peer and of the robot
\* itself, and role messages naming the peer and the robot
WorldLines ==
  { <<"INFO", "1", "p1">>, <<"INFO", "2", "p2">>,
    <<"BALL", "1", "2", "0">>,
    <<"POS", "p2", "1", "2", "1">>, <<"POS", "p1", "2", "1", "1">>,
    <<"ROLE", "p2", "Striker">>, <<"ROLE", "p1", "Goalie">> }

MaxFrames == 4

\* The server writes one whole line to the robot's socket
ServerWrites ==
  /\ srvOpen[Self]
  /\ Len(outbox[Self]) < MaxFrames
  /\ \E frame \in WorldLines :
       outbox' = [outbox EXCEPT ![Self] = Append(@, Chunk(frame, TRUE))]
  /\ UNCHANGED <<serverVars, peerOpen, srvOpen, robots>>

WorldNext ==
  \/ ServerWrites
  \/ RobotRecv(Self)

WorldSpec == AgentInit /\ [][WorldNext]_vars

(***************************************************************************)
(* The robot's main loop, one simulation step after the other, next to its *)
(* receive thread                                                          *)
(***************************************************************************)

\* Simulation steps the model follows
MaxTime == 4

\* Sensor values a simulation step may bring
GpsPoints == {<<0, 0>>, <<5, 0>>, <<12, 0>>}

Yaws == {0, 5, 90}

\* Both feet loaded; no load at all; a load whose sum is exactly 5 N; a
\* lightly loaded left foot under shear
FootForces ==
  { << <<0, 0, 40>>, <<0, 0, 40>> >>,
    << <<0, 0, 0>>, <<0, 0, 0>> >>,
    << <<0, 0, 17>>, <<0, 0, 0>> >>,
    << <<40, 0, 13>>, <<0, 0, 0>> >> }

\* Whole lines the server writes while the game runs
TickLines ==
  { <<"START", "0.05">>, <<"START", "0.1">>, <<"START">>,
    <<"BALL", "0.6", "0", "0">>, <<"BALL", "0.4", "0", "0">>,
    <<"ROLE", "Striker">> }

\* One round of the loop of listen_for_server in which recv returns exactly
\* one whole line, written by the server just before
Hear ==
  /\ robots[Self].listening
  /\ peerOpen[Self] = "open"
  /\ srvOpen[Self]
  /\ \E line \in TickLines :
       LET res == HandleMessage(robots[Self], line)
       IN IF res.raised
          THEN /\ robots' = [robots EXCEPT ![Self] = [res.robot EXCEPT !.listening = FALSE,
                                                                       !.exitOn = line]]
               /\ peerOpen' = [peerOpen EXCEPT ![Self] = "closed"]
          ELSE /\ robots' = [robots EXCEPT ![Self] = res.robot]
               /\ UNCHANGED peerOpen
  /\ UNCHANGED <<serverVars, srvOpen, outbox>>

\* soccer_robot.step(timeStep) returns: time advances, a playing motion may
\* have reached its end, the sensors have new values; then the test
\* "not paused and is_setup_time_over()" of the main loop
TickStep ==
  /\ robots[Self].pc = "step"
  /\ robots[Self].time < MaxTime
  /\ \E gps \in GpsPoints, yaw \in Yaws, done \in BOOLEAN :
       LET r == [robots[Self] EXCEPT
                   !.time = @ + 1,
                   !.over = IF robots[Self].currentlyPlaying # NotPlaying /\ done
                            THEN TRUE ELSE @]
       IN robots' = [robots EXCEPT ![Self] =
            IF ~r.paused /\ IsSetupTimeOver(r, 1)
            THEN [r EXCEPT !.pc = "fall",
                           !.sense = [gps |-> gps, yaw |-> yaw, fsr |-> NoSense.fsr],
                           !.cmds = <<>>, !.tx = <<>>, !.fell = FALSE]
            ELSE r]
  /\ UNCHANGED <<serverVars, peerOpen, srvOpen, outbox>>

\* determine_action, lines 425-436: has_fallen and the dispatch on self.state
FallStep ==
  /\ robots[Self].pc = "fall"
  /\ \E fsv \in FootForces :
       LET r == [robots[Self] EXCEPT
                   !.sense.fsr = fsv,
                   !.pc = "role"]
       IN robots' = [robots EXCEPT ![Self] =
            IF HasFallen(r, fsv)
            THEN [StartMotion(r, "standupFromBack") EXCEPT !.fell = TRUE]
            ELSE IF r.state = "Moving" THEN MoveToPosition(r, r.target_position)
            ELSE IF r.state = "Turning"
                 THEN TurnToDirection(r, r.target_rotation, GoToTurnThreshold).robot
            ELSE IF r.state = "Kicking"
                 THEN IF r.currentlyPlaying = "shoot" /\ r.over
                      THEN [r EXCEPT !.state = None] ELSE r
            ELSE r]
  /\ UNCHANGED <<serverVars, peerOpen, srvOpen, outbox>>

\* determine_action, lines 437-449: match self.role, and in the default
\* case "if the ball moved"
RoleStep ==
  /\ robots[Self].pc = "role"
  /\ LET
         r == [robots[Self] EXCEPT !.sense.fsr = NoSense.fsr]
     IN robots' = [robots EXCEPT ![Self] =
          IF r.role \in NamedRoles THEN [r EXCEPT !.pc = "send"]
          ELSE IF DistSq(r.ball_position, r.target_position) > BallMoved * BallMoved
               THEN [GoTo(r, r.ball_position[1], r.ball_position[2]) EXCEPT !.pc = "idle"]
               ELSE [r EXCEPT !.pc = "idle"]]
  /\ UNCHANGED <<serverVars, peerOpen, srvOpen, outbox>>

\* determine_action, lines 450-455: a player with no motion state heads
\* towards the ball or kicks
IdleStep ==
  /\ robots[Self].pc = "idle"
  /\ LET r == [robots[Self] EXCEPT !.pc = "send"]
     IN robots' = [robots EXCEPT ![Self] =
          IF r.state # None THEN r
          ELSE IF DistSq(r.ball_position, r.sense.gps) > KickRange * KickRange
               THEN GoTo(r, r.ball_position[1], r.ball_position[2])
               ELSE StartMotion(r, "shoot")]
  /\ UNCHANGED <<serverVars, peerOpen, srvOpen, outbox>>

\* send_player_state(force): sendall raises on a socket the receive thread
\* has closed, which ends the main loop
SendPlayerState(r, force) ==
  IF ~SendDue(r, force) THEN [r EXCEPT !.pc = "step", !.sense = NoSense]
  ELSE IF peerOpen[Self] # "open"
       THEN [r EXCEPT !.tx = Append(@, PosReport(r)), !.pc = "dead", !.sense = NoSense]
       ELSE [r EXCEPT !.tx = Append(@, PosReport(r)),
                      !.last_position = r.sense.gps,
                      !.last_rotation = r.sense.yaw,
                      !.sent_state = r.state,
                      !.pc = "step", !.sense = NoSense]

\* soccer_robot.send_player_state() of the main loop
SendStep ==
  /\ robots[Self].pc = "send"
  /\ robots' = [robots EXCEPT ![Self] = SendPlayerState(robots[Self], FALSE)]
  /\ UNCHANGED <<serverVars, peerOpen, srvOpen, outbox>>

\* The robot after the first step of the main program, before the thread of
\* connect_to_server has run
TickInit ==
  /\ clients = {}
  /\ team1 = {}
  /\ team2 = {}
  /\ acceptor = AcceptorInit
  /\ handler = [c \in Conns |-> HandlerInit]
  /\ peerOpen = [c \in Conns |-> "unborn"]
  /\ srvOpen = [c \in Conns |-> FALSE]
  /\ outbox = [c \in Conns |-> <<>>]
  /\ posFrom = 0
  /\ robots = [c \in Conns |-> RobotInit]

\* connect_to_server, the try branch: the socket connects and the thread of
\* listen_for_server starts
ConnectOk ==
  /\ peerOpen[Self] = "unborn"
  /\ peerOpen' = [peerOpen EXCEPT ![Self] = "open"]
  /\ srvOpen' = [srvOpen EXCEPT ![Self] = TRUE]
  /\ robots' = [robots EXCEPT ![Self].listening = TRUE]
  /\ UNCHANGED <<serverVars, outbox>>

\* connect_to_server, the except branch: connect raises, the failure is
\* printed, no thread is started and nothing else is changed
ConnectFails ==
  /\ peerOpen[Self] = "unborn"
  /\ peerOpen' = [peerOpen EXCEPT ![Self] = "refused"]
  /\ UNCHANGED <<serverVars, srvOpen, outbox, robots>>

TickNext ==
  \/ ConnectOk
  \/ ConnectFails
  \/ Hear
  \/ TickStep
  \/ FallStep
  \/ RoleStep
  \/ IdleStep
  \/ SendStep

TickSpec == TickInit /\ [][TickNext]_vars

(***************************************************************************)
(* send_player_state over a grid of headings                               *)
(***************************************************************************)

\* Headings of the grid: multiples of 15 degrees, half a turn to either side
MaxAngleSteps == 12

Angles == {15 * k : k \in -MaxAngleSteps..MaxAngleSteps}

\* The running robot at the origin about to call send_player_state, with any
\* heading of the grid read from the inertial unit and any heading of the
\* grid sent last
AngleInit ==
  /\ clients = {}
  /\ team1 = {}
  /\ team2 = {}
  /\ acceptor = AcceptorInit
  /\ handler = [c \in Conns |-> HandlerInit]
  /\ peerOpen = [c \in Conns |-> IF c = Self THEN "open" ELSE "unborn"]
  /\ srvOpen = [c \in Conns |-> c = Self]
  /\ outbox = [c \in Conns |-> <<>>]
  /\ posFrom = 0
  /\ \E yaw \in Angles, last \in Angles :
       robots = [c \in Conns |->
                  IF c = Self
                  THEN [RobotInit EXCEPT !.listening = TRUE, !.paused = FALSE,
                                         !.pc = "send", !.time = 2,
                                         !.sense.yaw = yaw, !.last_rotation = last]
                  ELSE RobotInit]

AngleNext == SendStep

AngleSpec == AngleInit /\ [][AngleNext]_vars

(***************************************************************************)
(* Properties                                                              *)
(***************************************************************************)

\* Connection c is put into a team by this step
JoinsTeam(c) == c \notin team1 \cup team2 /\ c \in team1' \cup team2'

\* C1, as claimed: accept places the new agent in the team with fewer
\* members, and in team 1 when both teams have the same size.
C1_TieToTeamOne ==
  [][\A c \in Conns : JoinsTeam(c) =>
        IF Cardinality(team1) < Cardinality(team2) THEN c \in team1' \ team2'
        ELSE IF Cardinality(team1) > Cardinality(team2) THEN c \in team2' \ team1'
        ELSE c \in team1' \ team2']_vars

\* C1, amended: accept places the new agent in the team with fewer members,
\* and in team 2 when both teams have the same size (both empty included).
C1_TieToTeamTwo ==
  [][\A c \in Conns : JoinsTeam(c) =>
        IF Cardinality(team1) < Cardinality(team2) THEN c \in team1' \ team2'
        ELSE IF Cardinality(team1) > Cardinality(team2) THEN c \in team2' \ team1'
        ELSE c \in team2' \ team1']_vars

\* The first agent joined with both teams empty, the second joined the
\* smaller team, the third joined on a tie of one against one
C1_Witness == 1 \in team2 /\ 2 \in team1 /\ 3 \in team2

\* No handler thread has left its receive loop
NoDisconnect == \A c \in Conns : handler[c].pc \in {"none", "recv"}

\* C2: as long as no connection has been disconnected, the sizes of team 1
\* and team 2 differ by at most 1.
C2_TeamsBalanced ==
  NoDisconnect =>
    /\ Cardinality(team1) - Cardinality(team2) <= 1
    /\ Cardinality(team2) - Cardinality(team1) <= 1

C2_Witness == NoDisconnect /\ Cardinality(team1 \cup team2) >= 3 /\ acceptor.pc = "listen"

\* How many times a frame was written to a socket
CountOf(log, frame) == Cardinality({i \in DOMAIN log : log[i].frame = frame})

\* C3: once broadcast(ADD of the new agent, sender = the new agent) has
\* ended, by return or by exception, every agent of the connection table
\* other than the sender whose connection is open has been sent the message
\* exactly once, and the sender never.
C3_BroadcastExactlyOnce ==
  acceptor.bcast \in {"returned", "raised"} =>
    \A k \in clients :
      LET n == CountOf(outbox[k], AddFrame(acceptor.team_number, acceptor.conn))
      IN IF k = acceptor.conn THEN n = 0
         ELSE peerOpen[k] = "open" => n = 1

\* C4: once the server has handled the POS report of an agent, the report
\* has been written to the socket of every other agent of the connection
\* table.
C4_PosRelayed ==
  posFrom # 0 =>
    \A b \in clients \ {posFrom} :
      \E i \in DOMAIN outbox[b] : outbox[b][i].frame[1] = "POS"

\* C5: a robot that has read every byte the server wrote to its accepted
\* connection has the AgentId and the team number of the server's SETUP frame.
C5_IdentityAssigned ==
  \A c \in Conns :
    (Len(outbox[c]) >= 1 /\ robots[c].nread = Len(outbox[c])) =>
      /\ robots[c].player_id = outbox[c][1].frame[3]
      /\ robots[c].team_number = outbox[c][1].frame[2]

\* C6: while a client keeps its connection open, no frame it sends ends its
\* handler or removes it from the connection table and the team sets.
C6_FramesNeverFatal ==
  \A c \in Conns :
    (handler[c].pc # "none" /\ peerOpen[c] = "open") =>
      /\ handler[c].pc = "recv"
      /\ c \in clients
      /\ c \in team1 \cup team2

\* A line of a tag the robot knows with fields missing or not numeric
Malformed(line) ==
  /\ line # NoFrame
  /\ \/ line[1] = "POS" /\ (Len(line) < 5 \/ \E i \in 3..5 : ~IsFloat(line[i]))
     \/ line[1] = "BALL" /\ (Len(line) < 4 \/ \E i \in 2..4 : ~IsFloat(line[i]))
     \/ line[1] = "START" /\ (Len(line) < 2 \/ ~IsFloat(line[2]))
     \/ line[1] = "ROLE" /\ Len(line) < 2
     \/ line[1] = "INFO" /\ Len(line) < 3

\* The robot reads a chunk in this step
RobotReads(c) == robots'[c].nread = robots[c].nread + 1

\* C7: when the robot reads a malformed line, its receive loop keeps running
\* and its socket stays open.
C7_MalformedSkipped ==
  [][(RobotReads(Self) /\ Malformed(NextLine(Self))) =>
        (robots'[Self].listening /\ peerOpen'[Self] = "open")]_vars

\* A well-formed POS line naming an id that is neither the robot's own nor
\* one it holds a peer record for
UnknownPeerPos(r, line) ==
  /\ line # NoFrame
  /\ line[1] = "POS"
  /\ ~Malformed(line)
  /\ line[2] # r.player_id
  /\ line[2] \notin DOMAIN r.player_states

\* C8: a POS line naming an agent the robot holds no record of changes
\* nothing of the robot (world model, ball, role, motion state) and the
\* receive loop continues.
C8_UnknownPeerNoOp ==
  [][(RobotReads(Self) /\ UnknownPeerPos(robots[Self], NextLine(Self))) =>
        robots'[Self] = [robots[Self] EXCEPT !.nread = @ + 1, !.buffer = <<>>]]_vars

\* C9: a connection whose handler thread has ended is absent from the
\* connection table and from both team sets.
C9_TerminatedRemoved ==
  \A c \in Conns :
    handler[c].pc \in {"done", "crashed"} => c \notin clients \cup team1 \cup team2

\* C10: the accept loop never ends, and every agent of the connection table
\* has a handler thread except the one whose accept is in progress.
C10_ServerKeepsAccepting ==
  /\ acceptor.pc # "dead"
  /\ \A c \in clients :
       handler[c].pc = "none" => (c = acceptor.conn /\ acceptor.pc # "listen")

\* The accept thread is between its insertion into the connection table and
\* its insertion into a team set
AcceptInConnect == acceptor.pc = "team"

\* The accept thread holds a live iterator of broadcast over the table
BroadcastTraversing == acceptor.pc = "bcast" /\ acceptor.it # NoIter

\* The handler thread of c is inside its removal: its lookup loop holds a
\* live iterator, or it is about to delete from the table or the team sets
HandlerInDisconnect(c) ==
  \/ handler[c].pc = "finally" /\ handler[c].it # NoIter
  \/ handler[c].pc \in {"del", "discard"}

\* C11: connect, disconnect and the traversal of broadcast are mutually
\* exclusive: while a handler thread is inside its removal, the accept
\* thread is neither inside an insertion nor traversing the table, and no
\* other handler thread is inside its removal.
C11_RegistryExclusive ==
  \A c \in Conns :
    HandlerInDisconnect(c) =>
      /\ ~AcceptInConnect
      /\ ~BroadcastTraversing
      /\ \A d \in Conns \ {c} : ~HandlerInDisconnect(d)

\* What only the tick loop may write according to C12: peer records, ball
\* position, role, motion state, target and pose bookkeeping
WorldModel(r) ==
  <<r.player_states, r.ball_position, r.role, r.state,
    r.target_position, r.target_rotation, r.last_position, r.last_rotation>>

\* C12: a step of the receive thread writes none of the peer records, the
\* ball position, the role, the motion state and the pose bookkeeping.
C12_ReceiveThreadWritesNothing ==
  [][RobotReads(Self) => WorldModel(robots'[Self]) = WorldModel(robots[Self])]_vars

\* A ROLE line with an agent id and a role
RoleLine(line) == line # NoFrame /\ line[1] = "ROLE" /\ Len(line) = 3

\* C13: for a robot that has its identity, a ROLE line naming the robot's
\* own id sets the robot's role to the role of the line; one naming another
\* agent leaves the robot's own role unchanged.
C13_RoleOnlyForSelf ==
  [][(RobotReads(Self) /\ RoleLine(NextLine(Self)) /\ ~Falsy(robots[Self].player_id)) =>
        IF NextLine(Self)[2] = robots[Self].player_id
        THEN robots'[Self].role = NextLine(Self)[3]
        ELSE robots'[Self].role = robots[Self].role]_vars

\* A well-formed BALL line
BallLine(line) == line # NoFrame /\ line[1] = "BALL" /\ ~Malformed(line)

\* A well-formed POS line naming a peer the robot holds a record of
KnownPeerPos(r, line) ==
  /\ line # NoFrame
  /\ line[1] = "POS"
  /\ ~Malformed(line)
  /\ line[2] # r.player_id
  /\ line[2] \in DOMAIN r.player_states

\* A well-formed POS line naming the robot's own id
SelfPos(r, line) ==
  /\ line # NoFrame
  /\ line[1] = "POS"
  /\ ~Malformed(line)
  /\ line[2] = r.player_id

\* The robot after its receive thread consumed one whole line
AfterRead(r) == [r EXCEPT !.nread = @ + 1, !.buffer = <<>>]

\* C14: a BALL line sets the ball position to its (x, y, z) and nothing
\* else; a POS line of a known peer sets that peer's recorded position to
\* its (x, y) and rotation to its heading and changes nothing else (the
\* ball, the robot's own motion state, role, target and identity stay); a
\* POS line naming the robot's own id changes nothing.
C14_BallThenPeerPose ==
  [][RobotReads(Self) =>
      LET r == robots[Self]
          line == NextLine(Self)
      IN /\ BallLine(line) =>
              robots'[Self] =
                [AfterRead(r) EXCEPT !.ball_position =
                   <<Float(line[2]), Float(line[3]), Float(line[4])>>]
         /\ KnownPeerPos(r, line) =>
              robots'[Self] =
                [AfterRead(r) EXCEPT !.player_states[line[2]] =
                   [info |-> r.player_states[line[2]].info,
                    position |-> <<Float(line[3]), Float(line[4])>>,
                    rotation |-> <<Float(line[5])>>]]
         /\ SelfPos(r, line) => robots'[Self] = AfterRead(r)]_vars

\* The robot p1 knows peer p2, applied BALL|1|2|0 and then POS|p2|1|2|1
C14_Witness ==
  /\ robots[Self].player_id = "p1"
  /\ robots[Self].nread = 4
  /\ outbox[Self][3].frame[1] = "BALL"
  /\ outbox[Self][4].frame = <<"POS", "p2", "1", "2", "1">>
  /\ robots[Self].ball_position = <<20, 40, 0>>
  /\ "p2" \in DOMAIN robots[Self].player_states
  /\ robots[Self].player_states["p2"].position = <<20, 40>>
  /\ robots[Self].player_states["p2"].rotation = <<20>>

\* The main loop passes from the stage at pc to the next one in this step
Leaves(pc) == robots[Self].pc = pc /\ robots'[Self].pc # pc

\* C15, as claimed: send_player_state, as the main loop calls it, hands a
\* frame to the socket exactly when the position is more than 0.25 from the
\* last transmitted one, or the heading is more than 5 degrees from the last
\* transmitted one, or the motion state differs from the one last
\* transmitted; when it hands none, the last transmitted pose stays.
C15_SendOnStateChange ==
  [][Leaves("send") =>
      LET r == robots[Self]
          r2 == robots'[Self]
      IN /\ (r2.tx # <<>>) <=>
              \/ DistSq(r.sense.gps, r.last_position) > 5 * 5
              \/ Abs(CalculateAngleDifference(r.sense.yaw, r.last_rotation)) > 5
              \/ r.state # r.sent_state
         /\ r2.tx = <<>> =>
              /\ r2.last_position = r.last_position
              /\ r2.last_rotation = r.last_rotation]_vars

\* C15, amended: send_player_state, as the main loop calls it, hands a
\* frame to the socket exactly when the position is more than 0.25 from the
\* last transmitted one or the heading is more than 5 degrees from the last
\* transmitted one, whatever the motion state; when it hands none, the last
\* transmitted pose stays.
C15_SendOnPoseChange ==
  [][Leaves("send") =>
      LET r == robots[Self]
          r2 == robots'[Self]
      IN /\ (r2.tx # <<>>) <=>
              \/ DistSq(r.sense.gps, r.last_position) > 5 * 5
              \/ Abs(CalculateAngleDifference(r.sense.yaw, r.last_rotation)) > 5
         /\ r2.tx = <<>> =>
              /\ r2.last_position = r.last_position
              /\ r2.last_rotation = r.last_rotation]_vars

\* The main loop ended a step in which the robot turned or moved on while
\* the pose stayed within the thresholds: nothing was sent
C15_Witness ==
  /\ robots[Self].pc = "step"
  /\ robots[Self].cmds # <<>>
  /\ robots[Self].state # robots[Self].sent_state
  /\ robots[Self].tx = <<>>
  /\ robots[Self].last_position = <<12, 0>>

\* C16: in a step in which has_fallen returned True, the stand-up motion is
\* the last motion started, the rest of determine_action issues no motion
\* command and leaves the target alone, and the motion state is Recovering
\* from the detection to the end of determine_action.
C16_FallPreempts ==
  [][(\E pc \in {"fall", "role", "idle"} : Leaves(pc)) =>
      LET r == robots[Self]
          r2 == robots'[Self]
      IN /\ (r.pc = "fall" /\ r2.fell) =>
              /\ r2.cmds # <<>>
              /\ r2.cmds[Len(r2.cmds)] = <<"play", "standupFromBack">>
              /\ r2.state = "Recovering"
         /\ (r.pc # "fall" /\ r.fell) =>
              /\ r2.cmds = r.cmds
              /\ r2.target_position = r.target_position
              /\ r2.state = "Recovering"]_vars

\* C17: has_fallen returns False, whatever the foot forces, whenever a
\* motion is still playing or twice the setup time has not passed.
C17_GatedNotFallen ==
  [][Leaves("fall") =>
      LET r == robots[Self]
          r2 == robots'[Self]
      IN ((r.currentlyPlaying # NotPlaying /\ ~r.over)
            \/ r.time < r.start_time + 2 * r.setup_time) =>
           /\ ~r2.fell
           /\ \A i \in DOMAIN r2.cmds : r2.cmds[i] # <<"play", "standupFromBack">>]_vars

\* has_fallen was called with no load on either foot before twice the setup
\* time had passed, and returned False
C17_Witness ==
  /\ robots[Self].pc = "role"
  /\ robots[Self].sense.fsr = << <<0, 0, 0>>, <<0, 0, 0>> >>
  /\ robots[Self].setup_time > 0
  /\ robots[Self].time < robots[Self].start_time + 2 * robots[Self].setup_time
  /\ ~robots[Self].fell

\* A corner force clamped to [0, 25] N
Clamp(x) == IF x < 0 THEN 0 ELSE IF x > 25 * 1360 THEN 25 * 1360 ELSE x

\* The reference of C18: the eight corner forces, each clamped, summed
ClampedTotal(fsv) ==
  Clamp(Corner(fsv[1], 1, 1)) + Clamp(Corner(fsv[1], 1, -1))
  + Clamp(Corner(fsv[1], -1, -1)) + Clamp(Corner(fsv[1], -1, 1))
  + Clamp(Corner(fsv[2], 1, 1)) + Clamp(Corner(fsv[2], 1, -1))
  + Clamp(Corner(fsv[2], -1, -1)) + Clamp(Corner(fsv[2], -1, 1))

\* C18: when has_fallen is not gated, its result is "the sum of the eight
\* clamped corner forces is strictly less than 5 N".
C18_FallMatchesReference ==
  [][Leaves("fall") =>
      LET r == robots[Self]
          r2 == robots'[Self]
      IN (IsMotionOver(r) /\ IsSetupTimeOver(r, 2)) =>
           (r2.fell <=> ClampedTotal(r2.sense.fsr) < 5 * 1360)]_vars

\* The end of the delay: start_time + setup_time
GraceEnd(r) == r.start_time + r.setup_time

\* The receive thread handles this well-formed START line in this step
HearsStart(line) ==
  /\ line[1] = "START"
  /\ ~Malformed(line)
  /\ robots[Self].listening
  /\ robots'[Self] = HandleMessage(robots[Self], line).robot

\* C19: a START line received while no delay is active puts the end of the
\* delay at the time of receipt plus its duration; one received while a
\* delay is active moves the end to the previous end plus its duration.
C19_GraceAdditive ==
  [][\A line \in TickLines : HearsStart(line) =>
        LET r == robots[Self]
        IN GraceEnd(robots'[Self]) =
             IF r.paused \/ r.time >= GraceEnd(r)
             THEN r.time + Float(line[2])
             ELSE GraceEnd(r) + Float(line[2])]_vars

\* C20: go_to(x, y) called while the robot is less than 0.2 from (x, y)
\* sets the target to (x, y), clears the motion state and calls neither
\* play nor stop of any motion.
C20_GoToArrived ==
  [][Leaves("role") =>
      LET r == robots[Self]
          r2 == robots'[Self]
          ball == <<r.ball_position[1], r.ball_position[2]>>
      IN (r.role \notin NamedRoles
            /\ DistSq(ball, r.target_position) > 10 * 10
            /\ DistSq(r.sense.gps, ball) < 4 * 4) =>
           /\ r2.target_position = ball
           /\ r2.state = None
           /\ r2.cmds = r.cmds
           /\ r2.currentlyPlaying = r.currentlyPlaying]_vars

\* go_to(0.6, 0) was called in the first step of the game with the robot at
\* (0.6, 0)
C20_Witness ==
  /\ robots[Self].pc = "idle"
  /\ robots[Self].time = 2
  /\ robots[Self].sense.gps = <<12, 0>>
  /\ robots[Self].target_position = <<12, 0>>
  /\ robots[Self].state = None
  /\ robots[Self].cmds = <<>>


\* C21, as claimed: the signed difference of two headings lies in (-180, 180]
\* degrees, the difference of a heading with itself is 0, and the heading
\* report is sent exactly when the difference is more than 5 degrees either
\* way.
C21_RangeOpenAtMinusPi ==
  [][Leaves("send") =>
      LET a == robots[Self].sense.yaw
          b == robots[Self].last_rotation
          diff == CalculateAngleDifference(a, b)
      IN /\ diff > -180 /\ diff <= 180
         /\ CalculateAngleDifference(a, a) = 0
         /\ (robots'[Self].tx # <<>>) <=> (diff > 5 \/ diff < -5)]_vars

\* C21, amended: the signed difference of two headings lies in [-180, 180)
\* degrees (half a turn gives -180), the difference of a heading with itself
\* is 0, and the heading report is sent exactly when the difference is more
\* than 5 degrees either way.
C21_RangeClosedAtMinusPi ==
  [][Leaves("send") =>
      LET a == robots[Self].sense.yaw
          b == robots[Self].last_rotation
          diff == CalculateAngleDifference(a, b)
      IN /\ diff >= -180 /\ diff < 180
         /\ CalculateAngleDifference(a, a) = 0
         /\ (robots'[Self].tx # <<>>) <=> (diff > 5 \/ diff < -5)]_vars

\* send_player_state ran with the heading at half a turn and sent it
C21_Witness ==
  /\ robots[Self].pc = "step"
  /\ robots[Self].last_rotation = 180
  /\ robots[Self].tx = << <<"POS", "0", "0.000", "0.000", "3.142\n">> >>


\* C22: after the connection to the relay server has failed, every later tick
\* of the main loop still runs the decision engine (determine_action).
C22_LoopRunsUnconnected ==
  [][(/\ peerOpen[Self] = "refused"
      /\ robots[Self].pc = "step"
      /\ robots'[Self].time = robots[Self].time + 1)
     => robots'[Self].pc = "fall"]_vars


\* A motion started in an earlier tick is still playing and determine_action
\* has issued no motion command in this tick so far
PlayingSinceTickBegan ==
  /\ robots[Self].pc \in {"fall", "role", "idle"}
  /\ robots[Self].cmds = <<>>
  /\ robots[Self].currentlyPlaying # NotPlaying
  /\ ~robots[Self].over

\* C23: a tick that begins while a motion is still playing issues no motion
\* play or stop command and changes neither the motion state nor the target
\* position, so no motion is stopped or replaced before it has finished.
C23_NoActionWhilePlaying ==
  [][PlayingSinceTickBegan =>
       /\ robots'[Self].cmds = <<>>
       /\ robots'[Self].state = robots[Self].state
       /\ robots'[Self].target_position = robots[Self].target_position]_vars


\* The step issues the kick command: play of the shoot motion
KickIssued ==
  /\ Len(robots'[Self].cmds) > Len(robots[Self].cmds)
  /\ robots'[Self].cmds[Len(robots'[Self].cmds)] = <<"play", "shoot">>

\* C24: when the default strategy within the close threshold of the ball
\* issues the kick command the motion state becomes Kicking, and while the
\* motion state is Kicking no further kick command is issued.
C24_KickOnceThenKicking ==
  [][/\ (Leaves("idle") /\ KickIssued) => robots'[Self].state = "Kicking"
     /\ robots[Self].state = "Kicking" => ~KickIssued]_vars


\* The motions played by the commands the step adds
NewPlays ==
  LET old == robots[Self].cmds
      new == robots'[Self].cmds
  IN {new[i][2] : i \in {j \in (Len(old) + 1)..Len(new) : new[j][1] = "play"}}

TurnMotions == {"turnLeft40", "turnRight40"}

\* The signed difference, in degrees, from the heading read in this tick to
\* the heading of a direction
HeadingDiff(direction) ==
  CalculateAngleDifference(robots[Self].sense.yaw, Atan2(direction[2], direction[1]))

\* The unit vector from the position read in this tick to a point
Towards(point) ==
  NormalizeVector(<<point[1] - robots[Self].sense.gps[1],
                    point[2] - robots[Self].sense.gps[2]>>)

\* What a call of turn_to_direction may do, given the signed difference and
\* the threshold: within the threshold no turn motion is started, otherwise
\* at most the turn motion of the side of the difference
TurnOutcome(diff, threshold) ==
  IF Abs(diff) < threshold
  THEN NewPlays \cap TurnMotions = {}
  ELSE NewPlays \subseteq {IF diff > 0 THEN "turnLeft40" ELSE "turnRight40"}

\* C25: turn_to_direction reports "no turn needed" exactly when the absolute
\* signed heading difference is below its threshold, and then starts no turn
\* motion and makes a Turning state Moving; otherwise it reports "turning"
\* and starts at most turnLeft40 for a positive difference and turnRight40
\* for any other.  Its three calls: by determine_action on a Turning robot,
\* by move_to_position once the motion is over, and by go_to of an idle
\* robot away from the ball, where the value reported decides between
\* Turning and Moving.
C25_TurnToDirection ==
  [][/\ (Leaves("fall") /\ ~robots'[Self].fell /\ robots[Self].state = "Turning")
        => LET diff == HeadingDiff(robots[Self].target_rotation)
           IN /\ TurnOutcome(diff, GoToTurnThreshold)
              /\ robots'[Self].state =
                   IF Abs(diff) < GoToTurnThreshold THEN "Moving" ELSE "Turning"
     /\ (/\ Leaves("fall") /\ ~robots'[Self].fell /\ robots[Self].state = "Moving"
         /\ IsMotionOver(robots[Self])
         /\ DistSq(robots[Self].sense.gps, robots[Self].target_position)
              >= Threshold * Threshold)
        => LET direction == Towards(robots[Self].target_position)
               diff == HeadingDiff(direction)
           IN /\ TurnOutcome(diff, TurnThreshold)
              /\ IF Abs(diff) < TurnThreshold
                 THEN robots'[Self].state = "Moving"
                 ELSE /\ robots'[Self].state = "Turning"
                      /\ robots'[Self].target_rotation = direction
     /\ (/\ Leaves("idle") /\ robots[Self].state = None
         /\ DistSq(robots[Self].ball_position, robots[Self].sense.gps)
              > KickRange * KickRange)
        => LET direction == Towards(robots[Self].ball_position)
               diff == HeadingDiff(direction)
           IN /\ TurnOutcome(diff, GoToTurnThreshold)
              /\ IF Abs(diff) < GoToTurnThreshold
                 THEN robots'[Self].state = "Moving"
                 ELSE /\ robots'[Self].state = "Turning"
                      /\ robots'[Self].target_rotation = direction]_vars

\* determine_action called turn_to_direction on a robot turning right, found
\* the heading within the threshold, stopped the turn and set Moving
C25_Witness ==
  /\ robots[Self].pc = "role"
  /\ robots[Self].state = "Moving"
  /\ robots[Self].cmds = << <<"stop", "turnRight40">> >>


\* The step in which handle_client_connection returns to the accept loop
AcceptCompletes == acceptor.pc = "bcast" /\ acceptor'.pc = "start"

\* The step in which the finally block of a handler thread ends
DisconnectCompletes == \E c \in Conns : handler[c].pc = "discard" /\ handler'[c].pc = "done"

\* C26: in every server state reached by a completed accept or a completed
\* disconnect, the ids of the connection table are exactly the members of
\* team 1 and team 2 together, and the two teams are disjoint.
C26_TableMatchesTeams ==
  [][(AcceptCompletes \/ DisconnectCompletes) =>
       /\ clients' = team1' \cup team2'
       /\ team1' \cap team2' = {}]_vars

====
